---------------------------- MODULE Spec2Model ----------------------------
(***************************************************************************)
(* A model of agilent.py: the decoding of Agilent FPA single-tile images   *)
(* (agilentImage) and mosaics (agilentMosaic) into a hyperspectral cube.   *)
(*                                                                         *)
(* numpy arrays are records [shape, a]: shape is the tuple of dimensions,  *)
(* a the nested 0-indexed functions holding the elements.  Python floats   *)
(* are modelled by integers (exact arithmetic).  A Python exception is the *)
(* name of its class.                                                      *)
(***************************************************************************)
EXTENDS Integers, Sequences, FiniteSets, TLC

VARIABLES
    pc,         \* position of the running call
    kind,       \* "image" | "mosaic" | "fpa" | "reshape": what is being run
    fs,         \* the file system the constructor is run against (input)
    handles,    \* the file handles that are open
    nopen,      \* how many files have been opened so far
    nread,      \* how many reads of file contents have been made so far
    ci,         \* _check_files: index of the extension being checked
    d,          \* _get_wavenumbers / _get_date: the local dict d
    info,       \* self.info
    xtiles,     \* _get_dmd: xtiles
    ytiles,     \* _get_dmd: ytiles
    fpasize,    \* _get_dat / _get_dmd: fpasize
    x,          \* _get_dmd: loop variable x
    y,          \* _get_dmd: loop variable y
    tile,       \* _get_dat: data, _get_dmd: tile (raw, then reshaped)
    data,       \* _get_dmd: the local canvas data
    self_data,  \* self.data
    err,        \* the exception that ended the call, or "none"
    arg,        \* the arguments of a pure function under check
    ret         \* its result

vars == <<pc, kind, fs, handles, nopen, nread, ci, d, info, xtiles, ytiles,
          fpasize, x, y, tile, data, self_data, err, arg, ret>>

(***************************************************************************)
(* Bounds of the model.                                                    *)
(***************************************************************************)
MaxNpts == 2        \* header Npts ranges over -1 .. MaxNpts
MaxFilePts == 4     \* a tile file holds 1 .. MaxFilePts spectral points
MaxTiles == 3       \* tile indices range over 0 .. MaxTiles-1 on each axis
MaxSide == 3        \* _reshape_tile alone: side ranges over 1 .. MaxSide
MaxPts == 2         \* _reshape_tile alone: Npts ranges over 1 .. MaxPts

(***************************************************************************)
(* Program constants.                                                      *)
(***************************************************************************)
DEBUG == TRUE
Preamble == 255
OffStartPt == 2228
OffNpts == 2236
OffPtSep == 2216
OffTimeStamp == 16489
LenTimeStamp == 46
EndOfStamp == 4
FpaSizes == {32, 64, 128}

None == "None"

Ok(v) == [ok |-> TRUE, val |-> v]
Raise(e) == [ok |-> FALSE, err |-> e]

Min(a, b) == IF a < b THEN a ELSE b
Max(a, b) == IF a > b THEN a ELSE b
Abs(a) == IF a < 0 THEN -a ELSE a

(***************************************************************************)
(* numpy                                                                   *)
(***************************************************************************)
\* The number of elements of an array of this shape.
RECURSIVE Size(_)
Size(shape) ==
    IF shape = <<>> THEN 1 ELSE Head(shape) * Size(Tail(shape))

\* A 1-D array from a 0-indexed function of n elements.
Array1(n, f) == [shape |-> <<n>>, a |-> [i \in 0..(n - 1) |-> f[i]]]

\* data[k:] of a 1-D array.
SliceFrom(arr, k) ==
    LET n == Max(arr.shape[1] - k, 0)
    IN  [shape |-> <<n>>, a |-> [i \in 0..(n - 1) |-> arr.a[i + k]]]

\* data.shape = shape on a 1-D array: a view in C order, an error when the
\* sizes differ.
SetShape(arr, shape) ==
    IF Size(shape) # Size(arr.shape)
    THEN Raise("ValueError")
    ELSE Ok([shape |-> shape,
             a |-> [i \in 0..(shape[1] - 1) |->
                    [j \in 0..(shape[2] - 1) |->
                     [k \in 0..(shape[3] - 1) |->
                        arr.a[(i * shape[2] + j) * shape[3] + k]]]]])

\* np.transpose(data, (1,2,0)): axis i of the result is axis (1,2,0)[i] of data.
Transpose120(arr) ==
    [shape |-> <<arr.shape[2], arr.shape[3], arr.shape[1]>>,
     a |-> [i \in 0..(arr.shape[2] - 1) |->
            [j \in 0..(arr.shape[3] - 1) |->
             [k \in 0..(arr.shape[1] - 1) |-> arr.a[k][i][j]]]]]

\* np.flip(m, 0)
Flip0(arr) ==
    [shape |-> arr.shape,
     a |-> [i \in 0..(arr.shape[1] - 1) |-> arr.a[arr.shape[1] - 1 - i]]]

\* np.flip(m, 1)
Flip1(arr) ==
    [shape |-> arr.shape,
     a |-> [i \in 0..(arr.shape[1] - 1) |->
            [j \in 0..(arr.shape[2] - 1) |-> arr.a[i][arr.shape[2] - 1 - j]]]]

\* np.rot90(m, 2): numpy computes it as flip(flip(m, 0), 1).
Rot90Twice(arr) == Flip1(Flip0(arr))

\* np.fliplr(m): m[:, ::-1]
Fliplr(arr) == Flip1(arr)

\* np.zeros(shape) of three dimensions.
Zeros(shape) ==
    [shape |-> shape,
     a |-> [i \in 0..(shape[1] - 1) |->
            [j \in 0..(shape[2] - 1) |->
             [k \in 0..(shape[3] - 1) |-> 0]]]]

\* np.array([])
EmptyArray == [shape |-> <<0>>, a |-> <<>>]

\* data[r0:r1, c0:c1, :] = t.  A slice is clipped to the array; t is broadcast
\* to the shape of the slice (a dimension of t fits when it is the slice's or
\* 1), and the assignment raises when it cannot be.
SetBlock(arr, r0, r1, c0, c1, t) ==
    LET R == arr.shape[1]
        C == arr.shape[2]
        ra == Min(r0, R)
        rb == Max(Min(r1, R), ra)
        ca == Min(c0, C)
        cb == Max(Min(c1, C), ca)
        target == <<rb - ra, cb - ca, arr.shape[3]>>
        fits == \A i \in 1..3 : t.shape[i] = target[i] \/ t.shape[i] = 1
        ix(i, n) == IF t.shape[i] = 1 THEN 0 ELSE n
    IN  IF ~fits
        THEN Raise("ValueError")
        ELSE Ok([shape |-> arr.shape,
                 a |-> [r \in 0..(R - 1) |->
                        [c \in 0..(C - 1) |->
                         [k \in 0..(arr.shape[3] - 1) |->
                            IF r >= ra /\ r < rb /\ c >= ca /\ c < cb
                            THEN t.a[ix(1, r - ra)][ix(2, c - ca)][ix(3, k)]
                            ELSE arr.a[r][c][k]]]]])

(***************************************************************************)
(* _fpa_size                                                               *)
(***************************************************************************)
\* The largest s with s*s <= n, for n >= 0: int(np.sqrt(n)).  It is searched
\* for between lo and hi, with lo*lo <= n < hi*hi.
RECURSIVE ISqrtIn(_, _, _)
ISqrtIn(n, lo, hi) ==
    IF hi - lo <= 1 THEN lo
    ELSE LET mid == (lo + hi) \div 2
         IN  IF mid * mid <= n THEN ISqrtIn(n, mid, hi) ELSE ISqrtIn(n, lo, mid)

ISqrt(n) == ISqrtIn(n, 0, Min(n, 46340) + 1)

\* _fpa_size rounding the square root to the nearest integer.
FpaSizeRounding(datasize, Npts) ==
    LET num == datasize[1] - Preamble * datasize[2]
        den == datasize[2] * Npts
        q == Abs(num) \div Abs(den)
        s == ISqrt(q)
        \* sqrt(num/den) >= s + 1/2  iff  4*num >= (2s+1)^2 * den
        up == 4 * Abs(num) >= (2 * s + 1) * (2 * s + 1) * Abs(den)
        side == IF up THEN s + 1 ELSE s
    IN  IF Npts = 0 THEN Raise("ZeroDivisionError")
        ELSE IF num # 0 /\ (num < 0) # (den < 0) THEN Raise("ValueError")
        ELSE IF side \notin FpaSizes THEN Raise("ValueError")
        ELSE Ok(side)

\* _fpa_size taking the preamble for data.
FpaSizeKeepsPreamble(datasize, Npts) ==
    LET num == datasize[1]
        den == datasize[2] * Npts
        side == ISqrt(Abs(num) \div Abs(den))
    IN  IF Npts = 0 THEN Raise("ZeroDivisionError")
        ELSE IF num # 0 /\ (num < 0) # (den < 0) THEN Raise("ValueError")
        ELSE IF side \notin FpaSizes THEN Raise("ValueError")
        ELSE Ok(side)

\* datasize is the pair <<n, m>> standing for the number n/m: data.size is
\* <<size, 1>> and p.stat().st_size / 4 is <<st_size, 4>>.
_fpa_size(datasize, Npts) ==
    LET num == datasize[1] - Preamble * datasize[2]    \* datasize - 255
        den == datasize[2] * Npts                       \* ... / Npts
        \* int(np.sqrt(num/den)): the square root of a negative number is
        \* nan, and int(nan) raises ValueError
        side == ISqrt(Abs(num) \div Abs(den))
    IN  IF Npts = 0 THEN Raise("ZeroDivisionError")
        ELSE IF num # 0 /\ (num < 0) # (den < 0) THEN Raise("ValueError")
        ELSE IF side \notin FpaSizes THEN Raise("ValueError")
        ELSE Ok(side)

(***************************************************************************)
(* _reshape_tile                                                           *)
(***************************************************************************)
\* _reshape_tile without the final fliplr.
ReshapeTileNoFliplr(tdata, shape) ==
    LET shaped == SetShape(SliceFrom(tdata, Preamble), shape)
    IN  IF ~shaped.ok THEN shaped
        ELSE Ok(Rot90Twice(Transpose120(shaped.val)))

_reshape_tile(tdata, shape) ==
    LET shaped == SetShape(SliceFrom(tdata, Preamble), shape)
    IN  IF ~shaped.ok THEN shaped
        ELSE Ok(Fliplr(Rot90Twice(Transpose120(shaped.val))))

(***************************************************************************)
(* The file system.  A file name is <<how, ext, x, y>>: Plain(ext) is      *)
(* p.with_suffix(ext), Lower(ext) the same name in lower case, and         *)
(* TileName(ext, x, y) is <stem>_{x:04d}_{y:04d}<ext>.  The stem has an    *)
(* upper-case letter, so Plain(ext) and Lower(ext) are two names.          *)
(***************************************************************************)
Plain(ext) == <<"plain", ext, 0, 0>>
Lower(ext) == <<"lower", ext, 0, 0>>
TileName(ext, tx, ty) == <<"tile", ext, tx, ty>>

\* Path.is_file()
IsFile(name) == name \in fs.files

\* The i-th float32 of a tile file: files differ from each other in every
\* element, and no element is 0.
Sample(name, i) == (name[3] * MaxTiles + name[4] + 1) * 100000 + i + 1

\* np.fromfile(f, dtype=np.float32): the whole 4-byte elements of the file.
FromFile(name) ==
    Array1(fs.tileBytes \div 4, [i \in 0..((fs.tileBytes \div 4) - 1) |-> Sample(name, i)])

(***************************************************************************)
(* The header file: len bytes, of which the model knows the 4 bytes of     *)
(* StartPt and of Npts, the value of the double PtSep, and the time stamp  *)
(* (stampLen characters, then 0x04, then blanks); every other byte is 0.   *)
(***************************************************************************)
StampByte(h, i) ==
    IF i < h.stampLen THEN 48 + (i % 10)
    ELSE IF i = h.stampLen THEN EndOfStamp ELSE 32

ByteAt(h, o) ==
    IF o >= OffStartPt /\ o < OffStartPt + 4 THEN h.start[o - OffStartPt + 1]
    ELSE IF o >= OffNpts /\ o < OffNpts + 4 THEN h.npts[o - OffNpts + 1]
    ELSE IF o >= OffTimeStamp THEN StampByte(h, o - OffTimeStamp)
    ELSE 0

\* f.seek(pos); f.read(n): the bytes there are, at most n.
ReadBytes(h, pos, n) ==
    [i \in 1..Max(0, Min(n, h.len - pos)) |-> ByteAt(h, pos + i - 1)]

\* The 4 bytes of a 32-bit signed integer, little-endian two's complement.
IntBytes(v) ==
    <<v % 256, (v \div 256) % 256, (v \div 65536) % 256, (v \div 16777216) % 256>>

\* _readint taking the bytes a short read lacks as 0.
ReadIntPadded(h, pos) ==
    LET b == ReadBytes(h, pos, 4)
        at(i) == IF i <= Len(b) THEN b[i] ELSE 0
        top == IF at(4) >= 128 THEN at(4) - 256 ELSE at(4)
    IN  Ok(at(1) + 256 * at(2) + 65536 * at(3) + 16777216 * top)

\* struct.unpack("i", f.read(4))[0], f at pos
_readint(h, pos) ==
    LET b == ReadBytes(h, pos, 4)
        top == IF b[4] >= 128 THEN b[4] - 256 ELSE b[4]
    IN  IF Len(b) # 4 THEN Raise("struct.error")
        ELSE Ok(b[1] + 256 * b[2] + 65536 * b[3] + 16777216 * top)

\* struct.unpack("d", f.read(8))[0], f at pos.  The 8 bytes stand for the
\* number h.sep.
_readdouble(h, pos) ==
    IF Max(0, Min(8, h.len - pos)) # 8 THEN Raise("struct.error")
    ELSE Ok(h.sep)

\* bytes.partition(sep)[0]: what comes before the first sep, or all of it.
RECURSIVE PartitionHead(_, _)
PartitionHead(b, sep) ==
    IF b = <<>> \/ Head(b) = sep THEN <<>>
    ELSE <<Head(b)>> \o PartitionHead(Tail(b), sep)

\* bytes.decode(): the text of ASCII bytes; other bytes are taken as invalid.
Decode(b) ==
    IF \E i \in 1..Len(b) : b[i] >= 128 THEN Raise("UnicodeDecodeError")
    ELSE Ok(b)

\* The list comprehension one i short.
WavenumbersShort(PtSep, StartPt, Npts) ==
    [i \in 1..Max(Npts - 1, 0) |-> PtSep * (StartPt + (i - 1))]

\* [PtSep * (StartPt + i) for i in range(Npts)], built element by element.
RECURSIVE WavenumberList(_, _, _)
WavenumberList(PtSep, StartPt, Npts) ==
    IF Npts <= 0 THEN <<>>
    ELSE Append(WavenumberList(PtSep, StartPt, Npts - 1),
                PtSep * (StartPt + (Npts - 1)))

\* A dict is the function from its keys to their values.
EmptyDict == <<>>

\* d[key] = v
SetItem(dict, key, v) == (key :> v) @@ dict

\* dict.update
Update(a, b) == b @@ a

(***************************************************************************)
(* _check_files                                                            *)
(***************************************************************************)
Exts == IF kind = "image" THEN <<".seq", ".dat", ".bsp">>
        ELSE <<".dms", ".dmt", ".drd", ".dmd">>

\* _check_files looking for the .dmt file under the name as given.
CheckPathAsGiven(ext) ==
    IF ext \in {".drd", ".dmd"} THEN TileName(ext, 0, 0) ELSE Plain(ext)

\* The path _check_files looks for, for one extension.
CheckPath(ext) ==
    IF ext = ".dmt" THEN Lower(ext)
    ELSE IF ext \in {".drd", ".dmd"} THEN TileName(ext, 0, 0)
    ELSE Plain(ext)

HeaderName == IF kind = "image" THEN Plain(".bsp") ELSE Lower(".dmt")

\* A with block left by an exception while a handle is kept open.
LeaveOpen(hs, name) == hs

\* Leaving "with p.open(...) as f": f is closed, also by an exception.
ExitWith(hs, name) == hs \ {name}

(***************************************************************************)
(* The constructors agilentImage(filename) and agilentMosaic(filename).    *)
(***************************************************************************)
\* An exception leaves the constructor.
Fail(e) == pc' = "failed" /\ err' = e

\* _check_files: one turn of "for ext in exts", and "return p" after the last.
CheckFile ==
    /\ pc = "check"
    /\ IF ~IsFile(CheckPath(Exts[ci]))
       THEN Fail("OSError") /\ UNCHANGED ci
       ELSE /\ ci' = ci + 1
            /\ pc' = IF ci = Len(Exts) THEN "hdr_open" ELSE "check"
            /\ UNCHANGED err
    /\ UNCHANGED <<kind, fs, handles, nopen, nread, d, info, xtiles, ytiles,
                   fpasize, x, y, tile, data, self_data, arg, ret>>

\* _get_bsp_info / _get_dmt_info: "with p.open(mode='rb') as f", and the
\* "d = {}" of _get_wavenumbers
OpenHeader ==
    /\ pc = "hdr_open"
    /\ IF ~IsFile(HeaderName)
       THEN Fail("OSError") /\ UNCHANGED <<handles, nopen, d>>
       ELSE /\ handles' = handles \cup {HeaderName}
            /\ nopen' = nopen + 1
            /\ d' = EmptyDict
            /\ pc' = "rd_start"
            /\ UNCHANGED err
    /\ UNCHANGED <<kind, fs, nread, ci, info, xtiles, ytiles, fpasize, x, y,
                   tile, data, self_data, arg, ret>>

\* One field of the header, read with the result r, goes into d[key]; the
\* exception of a short read leaves the with block.
ReadField(at, key, r, next) ==
    /\ pc = at
    /\ nread' = nread + 1
    /\ (  IF ~r.ok
           THEN /\ Fail(r.err)
                /\ handles' = ExitWith(handles, HeaderName)
                /\ UNCHANGED d
           ELSE /\ d' = SetItem(d, key, r.val)
                /\ pc' = next
                /\ UNCHANGED <<handles, err>>  )
    /\ UNCHANGED <<kind, fs, nopen, ci, info, xtiles, ytiles, fpasize, x, y,
                   tile, data, self_data, arg, ret>>

\* f.seek(2228); d['StartPt'] = _readint(f)
ReadStartPt == ReadField("rd_start", "StartPt", _readint(fs.hdr, OffStartPt), "rd_npts")

\* f.seek(2236); d['Npts'] = _readint(f)
ReadNpts == ReadField("rd_npts", "Npts", _readint(fs.hdr, OffNpts), "rd_sep")

\* f.seek(2216); d['PtSep'] = _readdouble(f)
ReadPtSep == ReadField("rd_sep", "PtSep", _readdouble(fs.hdr, OffPtSep), "axis")

\* The rest of _get_wavenumbers: the list, the DEBUG print (v[0] of an empty
\* list raises IndexError), "return d" and self.info.update of it.
BuildWavenumbers ==
    /\ pc = "axis"
    /\ LET wn == WavenumberList(d["PtSep"], d["StartPt"], d["Npts"])
           dd == SetItem(d, "wavenumbers", wn)
       IN  /\ d' = dd
           /\ IF DEBUG /\ Len(wn) = 0
              THEN /\ Fail("IndexError")
                   /\ handles' = ExitWith(handles, HeaderName)
                   /\ UNCHANGED info
              ELSE /\ info' = Update(info, dd)
                   /\ pc' = IF kind = "image" THEN "rd_date" ELSE "hdr_close"
                   /\ UNCHANGED <<handles, err>>
    /\ UNCHANGED <<kind, fs, nopen, nread, ci, xtiles, ytiles, fpasize, x, y,
                   tile, data, self_data, arg, ret>>

\* _get_date: a short read is no error, the bytes there are get decoded.
GetDate(h) == Decode(PartitionHead(ReadBytes(h, OffTimeStamp, LenTimeStamp), EndOfStamp))

\* self.info.update(_get_date(f))
ReadDate ==
    /\ pc = "rd_date"
    /\ nread' = nread + 1
    /\ LET r == GetDate(fs.hdr)
       IN  IF ~r.ok
           THEN /\ Fail(r.err)
                /\ handles' = ExitWith(handles, HeaderName)
                /\ UNCHANGED <<d, info>>
           ELSE /\ d' = SetItem(EmptyDict, "Time Stamp", r.val)
                /\ info' = Update(info, d')
                /\ pc' = "hdr_close"
                /\ UNCHANGED <<handles, err>>
    /\ UNCHANGED <<kind, fs, nopen, ci, xtiles, ytiles, fpasize, x, y, tile,
                   data, self_data, arg, ret>>

\* The end of the with block of _get_bsp_info / _get_dmt_info.
CloseHeader ==
    /\ pc = "hdr_close"
    /\ handles' = ExitWith(handles, HeaderName)
    /\ pc' = IF kind = "image" THEN "dat_open" ELSE "glob_x"
    /\ UNCHANGED <<kind, fs, nopen, nread, ci, d, info, xtiles, ytiles,
                   fpasize, x, y, tile, data, self_data, err, arg, ret>>

(***************************************************************************)
(* agilentImage._get_dat                                                   *)
(***************************************************************************)
\* with p.open(mode='rb') as f
OpenDat ==
    /\ pc = "dat_open"
    /\ IF ~IsFile(Plain(".dat"))
       THEN Fail("OSError") /\ UNCHANGED <<handles, nopen>>
       ELSE /\ handles' = handles \cup {Plain(".dat")}
            /\ nopen' = nopen + 1
            /\ pc' = "dat_read"
            /\ UNCHANGED err
    /\ UNCHANGED <<kind, fs, nread, ci, d, info, xtiles, ytiles, fpasize, x, y,
                   tile, data, self_data, arg, ret>>

\* data = np.fromfile(f, dtype=np.float32)
ReadDat ==
    /\ pc = "dat_read"
    /\ tile' = FromFile(Plain(".dat"))
    /\ nread' = nread + 1
    /\ pc' = "dat_close"
    /\ UNCHANGED <<kind, fs, handles, nopen, ci, d, info, xtiles, ytiles,
                   fpasize, x, y, data, self_data, err, arg, ret>>

CloseDat ==
    /\ pc = "dat_close"
    /\ handles' = ExitWith(handles, Plain(".dat"))
    /\ pc' = "dat_fpa"
    /\ UNCHANGED <<kind, fs, nopen, nread, ci, d, info, xtiles, ytiles,
                   fpasize, x, y, tile, data, self_data, err, arg, ret>>

\* fpasize = _fpa_size(data.size, self.info['Npts'])
ImageFpaSize ==
    /\ pc = "dat_fpa"
    /\ LET r == _fpa_size(<<Size(tile.shape), 1>>, info["Npts"])
       IN  IF ~r.ok
           THEN Fail(r.err) /\ UNCHANGED fpasize
           ELSE fpasize' = r.val /\ pc' = "dat_reshape" /\ UNCHANGED err
    /\ UNCHANGED <<kind, fs, handles, nopen, nread, ci, d, info, xtiles,
                   ytiles, x, y, tile, data, self_data, arg, ret>>

\* self.data = _reshape_tile(data, (self.info['Npts'], fpasize, fpasize))
ImageReshape ==
    /\ pc = "dat_reshape"
    /\ LET r == _reshape_tile(tile, <<info["Npts"], fpasize, fpasize>>)
       IN  IF ~r.ok
           THEN Fail(r.err) /\ UNCHANGED self_data
           ELSE self_data' = r.val /\ pc' = "done" /\ UNCHANGED err
    /\ UNCHANGED <<kind, fs, handles, nopen, nread, ci, d, info, xtiles,
                   ytiles, fpasize, x, y, tile, data, arg, ret>>

(***************************************************************************)
(* agilentMosaic._get_dmd                                                  *)
(***************************************************************************)
\* The files p_in.parent.glob(...) yields: the .dmd tiles with y = 0, with
\* x = 0.
GlobXFiles == {n \in fs.files : n[1] = "tile" /\ n[2] = ".dmd" /\ n[4] = 0}
GlobYFiles == {n \in fs.files : n[1] = "tile" /\ n[2] = ".dmd" /\ n[3] = 0}

GlobX ==
    /\ pc = "glob_x"
    /\ xtiles' = Cardinality(GlobXFiles)
    /\ pc' = "glob_y"
    /\ UNCHANGED <<kind, fs, handles, nopen, nread, ci, d, info, ytiles,
                   fpasize, x, y, tile, data, self_data, err, arg, ret>>

GlobY ==
    /\ pc = "glob_y"
    /\ ytiles' = Cardinality(GlobYFiles)
    /\ pc' = "stat"
    /\ UNCHANGED <<kind, fs, handles, nopen, nread, ci, d, info, xtiles,
                   fpasize, x, y, tile, data, self_data, err, arg, ret>>

\* fpasize = _fpa_size(p.stat().st_size / 4, Npts)
StatFpaSize ==
    /\ pc = "stat"
    /\ IF ~IsFile(TileName(".dmd", 0, 0))
       THEN Fail("OSError") /\ UNCHANGED fpasize
       ELSE LET r == _fpa_size(<<fs.tileBytes, 4>>, info["Npts"])
            IN  IF ~r.ok
                THEN Fail(r.err) /\ UNCHANGED fpasize
                ELSE fpasize' = r.val /\ pc' = "alloc" /\ UNCHANGED err
    /\ UNCHANGED <<kind, fs, handles, nopen, nread, ci, d, info, xtiles,
                   ytiles, x, y, tile, data, self_data, arg, ret>>

\* The shape np.zeros is called with.
CanvasShape(xt, yt, side, Npts) == <<xt * side, yt * side, Npts>>

\* The first turn of the two loops, or none.
LoopStart ==
    IF ytiles > 0 /\ xtiles > 0
    THEN pc' = "tile_open" /\ x' = 0 /\ y' = 0
    ELSE pc' = "assign" /\ UNCHANGED <<x, y>>

\* data = np.zeros(...), and the loops are entered
Allocate ==
    /\ pc = "alloc"
    /\ data' = Zeros(CanvasShape(xtiles, ytiles, fpasize, info["Npts"]))
    /\ LoopStart
    /\ UNCHANGED <<kind, fs, handles, nopen, nread, ci, d, info, xtiles,
                   ytiles, fpasize, tile, self_data, err, arg, ret>>

\* The turn of "for y in range(ytiles): for x in range(xtiles)" after the
\* turn (cx, cy), or the end of the loops.
NextTurn(cx, cy) ==
    IF cx + 1 < xtiles THEN [pc |-> "tile_open", x |-> cx + 1, y |-> cy, err |-> "none"]
    ELSE IF cy + 1 < ytiles THEN [pc |-> "tile_open", x |-> 0, y |-> cy + 1, err |-> "none"]
    ELSE [pc |-> "assign", x |-> cx, y |-> cy, err |-> "none"]

\* Opening a tile that is not there skips the tile and leaves its region 0.
OpenMissingSkips(cx, cy) == NextTurn(cx, cy)

\* Opening the tile file of the turn (cx, cy) when it is not there:
\* p_dmd.open raises.
OpenMissing(cx, cy) == [pc |-> "failed", x |-> cx, y |-> cy, err |-> "OSError"]

\* with p_dmd.open(mode='rb') as f
OpenTile ==
    /\ pc = "tile_open"
    /\ IF ~IsFile(TileName(".dmd", x, y))
       THEN LET o == OpenMissing(x, y)
            IN  /\ pc' = o.pc /\ x' = o.x /\ y' = o.y /\ err' = o.err
                /\ UNCHANGED <<handles, nopen>>
       ELSE /\ handles' = handles \cup {TileName(".dmd", x, y)}
            /\ nopen' = nopen + 1
            /\ pc' = "tile_read"
            /\ UNCHANGED <<err, x, y>>
    /\ UNCHANGED <<kind, fs, nread, ci, d, info, xtiles, ytiles, fpasize,
                   tile, data, self_data, arg, ret>>

\* tile = np.fromfile(f, dtype=np.float32)
ReadTile ==
    /\ pc = "tile_read"
    /\ tile' = FromFile(TileName(".dmd", x, y))
    /\ nread' = nread + 1
    /\ pc' = "tile_close"
    /\ UNCHANGED <<kind, fs, handles, nopen, ci, d, info, xtiles, ytiles,
                   fpasize, x, y, data, self_data, err, arg, ret>>

CloseTile ==
    /\ pc = "tile_close"
    /\ handles' = ExitWith(handles, TileName(".dmd", x, y))
    /\ pc' = "tile_reshape"
    /\ UNCHANGED <<kind, fs, nopen, nread, ci, d, info, xtiles, ytiles,
                   fpasize, x, y, tile, data, self_data, err, arg, ret>>

\* tile = _reshape_tile(tile, (Npts, fpasize, fpasize))
ReshapeTile ==
    /\ pc = "tile_reshape"
    /\ LET r == _reshape_tile(tile, <<info["Npts"], fpasize, fpasize>>)
       IN  IF ~r.ok
           THEN Fail(r.err) /\ UNCHANGED tile
           ELSE tile' = r.val /\ pc' = "tile_place" /\ UNCHANGED err
    /\ UNCHANGED <<kind, fs, handles, nopen, nread, ci, d, info, xtiles,
                   ytiles, fpasize, x, y, data, self_data, arg, ret>>

\* data[y*fpasize:(y+1)*fpasize, x*fpasize:(x+1)*fpasize, :] = tile
PlaceTile ==
    /\ pc = "tile_place"
    /\ LET r == SetBlock(data, y * fpasize, (y + 1) * fpasize,
                         x * fpasize, (x + 1) * fpasize, tile)
       IN  IF ~r.ok
           THEN Fail(r.err) /\ UNCHANGED <<data, x, y>>
           ELSE LET o == NextTurn(x, y)
                IN  /\ data' = r.val
                    /\ pc' = o.pc /\ x' = o.x /\ y' = o.y
                    /\ UNCHANGED err
    /\ UNCHANGED <<kind, fs, handles, nopen, nread, ci, d, info, xtiles,
                   ytiles, fpasize, tile, self_data, arg, ret>>

\* self.data = data
AssignData ==
    /\ pc = "assign"
    /\ self_data' = data
    /\ pc' = "done"
    /\ UNCHANGED <<kind, fs, handles, nopen, nread, ci, d, info, xtiles,
                   ytiles, fpasize, x, y, tile, data, err, arg, ret>>

(***************************************************************************)
(* The inputs.                                                             *)
(***************************************************************************)
Kinds == {"image", "mosaic"}

Required(k) ==
    IF k = "image" THEN {Plain(".seq"), Plain(".dat"), Plain(".bsp")}
    ELSE {Plain(".dms"), Lower(".dmt"), TileName(".drd", 0, 0), TileName(".dmd", 0, 0)}

\* The sides of the tiles the tile files are written with.
TileSides == {32}

\* The size in bytes of a tile file of side*side pixels of n points.
TileBytes(side, n) == 4 * (Preamble + side * side * n)

\* The sizes a tile file is given: a whole tile, a tile and two bytes, a tile
\* and one more element, and a file shorter than the preamble.
TileByteChoices ==
    {TileBytes(s, n) + extra : s \in TileSides, n \in 1..MaxFilePts, extra \in {0, 2, 4}}
        \cup {400}

HeaderLens ==
    {0, OffPtSep + 4, OffStartPt + 2, OffNpts + 2, OffNpts + 4, OffTimeStamp,
     OffTimeStamp + 10, OffTimeStamp + LenTimeStamp}

Header(len, StartPt, Npts, PtSep, stampLen) ==
    [len |-> len, start |-> IntBytes(StartPt), npts |-> IntBytes(Npts),
     sep |-> PtSep, stampLen |-> stampLen]

\* A whole header of Npts points.
DefaultHeader(Npts) == Header(OffTimeStamp + LenTimeStamp, 3, Npts, 2, 19)

\* The tile files of a mosaic: those of the x axis xs, of the y axis ys, and
\* all the others, but the tile (1, 1) only when "inner".
MosaicTiles(xs, ys, inner) ==
    {TileName(".dmd", tx, 0) : tx \in xs \cup {0}}
        \cup {TileName(".dmd", 0, ty) : ty \in ys \cup {0}}
        \cup {TileName(".dmd", c[1], c[2]) :
                c \in {c \in (1..(MaxTiles - 1)) \X (1..(MaxTiles - 1)) :
                         inner \/ c # <<1, 1>>}}

\* The constructor is called: DataObject.__init__ has run.
Start(k, files, hdr, bytes) ==
    /\ kind = k
    /\ fs = [files |-> files, hdr |-> hdr, tileBytes |-> bytes]
    /\ pc = "check"
    /\ ci = 1
    /\ handles = {}
    /\ nopen = 0
    /\ nread = 0
    /\ d = EmptyDict
    /\ info = EmptyDict
    /\ xtiles = 0
    /\ ytiles = 0
    /\ fpasize = 0
    /\ x = 0
    /\ y = 0
    /\ tile = EmptyArray
    /\ data = EmptyArray
    /\ self_data = EmptyArray
    /\ err = "none"
    /\ arg = None
    /\ ret = None

\* Any of the sibling files may be missing.
InitFiles ==
    \E k \in Kinds :
      \E files \in SUBSET (Required(k) \cup {Plain(".dmt")}) :
        Start(k, files, DefaultHeader(1), TileBytes(32, 1))

\* Any header, short or whole; only an image reads the time stamp.
InitHeader ==
    \E k \in Kinds, len \in HeaderLens, StartPt \in {-1, 3},
       Npts \in -1..MaxNpts, PtSep \in {-2, 0, 2} :
      \E stampLen \in (IF k = "image" THEN {0, 19, LenTimeStamp} ELSE {19}) :
        Start(k, Required(k), Header(len, StartPt, Npts, PtSep, stampLen),
              TileBytes(32, Max(Npts, 1)))

\* Tile files of any size.
InitSizes ==
    \E k \in Kinds, Npts \in 1..MaxNpts, bytes \in TileByteChoices :
        Start(k, Required(k), DefaultHeader(Npts), bytes)

\* Any grid of tiles, with or without gaps in it.
InitTiles ==
    \E k \in Kinds, xs \in SUBSET (1..(MaxTiles - 1)), ys \in SUBSET (1..(MaxTiles - 1)),
       inner \in BOOLEAN :
        Start(k, Required(k) \cup MosaicTiles(xs, ys, inner),
              DefaultHeader(1), TileBytes(32, 1))

Init == InitFiles \/ InitHeader \/ InitSizes \/ InitTiles

Next ==
    \/ CheckFile
    \/ OpenHeader
    \/ ReadStartPt
    \/ ReadNpts
    \/ ReadPtSep
    \/ BuildWavenumbers
    \/ ReadDate
    \/ CloseHeader
    \/ OpenDat
    \/ ReadDat
    \/ CloseDat
    \/ ImageFpaSize
    \/ ImageReshape
    \/ GlobX
    \/ GlobY
    \/ StatFpaSize
    \/ Allocate
    \/ OpenTile
    \/ ReadTile
    \/ CloseTile
    \/ ReshapeTile
    \/ PlaceTile
    \/ AssignData

Spec == Init /\ [][Next]_vars

\* The constructors run against sibling files of which any may be missing.
SpecFiles == InitFiles /\ [][Next]_vars

\* The constructors run against any header.
SpecHeader == InitHeader /\ [][Next]_vars

\* The constructors run against tile files of any size.
SpecSizes == InitSizes /\ [][Next]_vars

\* The constructors run against any grid of tiles.
SpecMosaic == InitTiles /\ [][Next]_vars

(***************************************************************************)
(* _fpa_size and _reshape_tile called alone.                               *)
(***************************************************************************)
Idle(k) ==
    /\ kind = k
    /\ fs = [files |-> {}, hdr |-> DefaultHeader(1), tileBytes |-> 0]
    /\ pc = "call"
    /\ ci = 1
    /\ handles = {}
    /\ nopen = 0
    /\ nread = 0
    /\ d = EmptyDict
    /\ info = EmptyDict
    /\ xtiles = 0
    /\ ytiles = 0
    /\ fpasize = 0
    /\ x = 0
    /\ y = 0
    /\ tile = EmptyArray
    /\ data = EmptyArray
    /\ self_data = EmptyArray
    /\ err = "none"
    /\ ret = None

\* The element counts _fpa_size is called with: around the counts of whole
\* tiles, and around those whose square root is half way between two sides.
FpaCounts ==
    {Preamble + n * (s * s + t * s) + delta :
        s \in FpaSizes, n \in 1..MaxNpts, t \in -2..2, delta \in -1..1}
        \cup {0, 100, Preamble}

InitFpa ==
    /\ Idle("fpa")
    /\ \E count \in FpaCounts, Npts \in -1..MaxNpts :
         \/ arg = [datasize |-> <<count, 1>>, Npts |-> Npts]
         \/ arg = [datasize |-> <<4 * count + 2, 4>>, Npts |-> Npts]

FpaCall ==
    /\ pc = "call"
    /\ kind = "fpa"
    /\ ret' = _fpa_size(arg.datasize, arg.Npts)
    /\ pc' = "returned"
    /\ UNCHANGED <<kind, fs, handles, nopen, nread, ci, d, info, xtiles,
                   ytiles, fpasize, x, y, tile, data, self_data, err, arg>>

NextFpa == FpaCall

SpecFpa == InitFpa /\ [][NextFpa]_vars

\* The i-th element of a raw buffer filled the way "pat".
Pattern(pat, i) ==
    IF pat = 1 THEN i ELSE IF pat = 2 THEN (i * 7) % 5 ELSE 100000 - 3 * i

InitReshape ==
    /\ Idle("reshape")
    /\ \E side \in 1..MaxSide, Npts \in 1..MaxPts, extra \in -1..1, pat \in 1..3 :
         arg = [data |-> Array1(Preamble + side * side * Npts + extra,
                                [i \in 0..(Preamble + side * side * Npts + extra - 1)
                                    |-> Pattern(pat, i)]),
                shape |-> <<Npts, side, side>>]

ReshapeCall ==
    /\ pc = "call"
    /\ kind = "reshape"
    /\ ret' = _reshape_tile(arg.data, arg.shape)
    /\ pc' = "returned"
    /\ UNCHANGED <<kind, fs, handles, nopen, nread, ci, d, info, xtiles,
                   ytiles, fpasize, x, y, tile, data, self_data, err, arg>>

NextReshape == ReshapeCall

SpecReshape == InitReshape /\ [][NextReshape]_vars

(***************************************************************************)
(* The properties.                                                         *)
(***************************************************************************)
Terminal == pc \in {"done", "failed"}

\* The tile positions of the discovered grid whose file is not there.
MissingInGrid ==
    {c \in (0..(xtiles - 1)) \X (0..(ytiles - 1)) : ~IsFile(TileName(".dmd", c[1], c[2]))}

\* The tile files have the size of a tile of the header's Npts points.
TilesValid ==
    /\ "Npts" \in DOMAIN info
    /\ \E s \in FpaSizes : fs.tileBytes = TileBytes(s, info["Npts"])

\* The element of the file of tile (tx, ty) that pixel (r, c), point k of the
\* decoded tile of the given side is to hold.
TileElement(tx, ty, side, r, c, k) ==
    Sample(TileName(".dmd", tx, ty),
           Preamble + k * side * side + (side - 1 - r) * side + c)

\* The block of tile (tx, ty) of the array holds only v(r, c, k).
BlockHolds(arr, tx, ty, side, v(_, _, _)) ==
    \A r \in 0..(side - 1), c \in 0..(side - 1), k \in 0..(arr.shape[3] - 1) :
        arr.a[ty * side + r][tx * side + c][k] = v(r, c, k)

\* C1: a mosaic whose grid of xTiles by yTiles tile files is complete, all of
\* the same valid size, is constructed, and the block of rows [y*side,
\* (y+1)*side) and columns [x*side, (x+1)*side) of the canvas holds the
\* decoded tile of file (x, y).  (The statement of the claim; the code breaks
\* it when xTiles # yTiles.)
C1_EveryTileInItsBlock ==
    (/\ kind = "mosaic"
     /\ Terminal
     /\ xtiles >= 1 /\ ytiles >= 1
     /\ MissingInGrid = {}
     /\ TilesValid)
    => /\ pc = "done"
       /\ \A tx \in 0..(xtiles - 1), ty \in 0..(ytiles - 1) :
            LET v(r, c, k) == TileElement(tx, ty, fpasize, r, c, k)
            IN  BlockHolds(self_data, tx, ty, fpasize, v)

\* C2: the canvas _get_dmd allocates is all 0 and of the shape (yTiles*side,
\* xTiles*side, numPoints), which is the shape of the data returned.  (The
\* statement of the claim; the code allocates (xTiles*side, yTiles*side, ...).)
C2_CanvasRowsAreYTiles ==
    (kind = "mosaic" /\ data # EmptyArray)
    => /\ data.shape = <<ytiles * fpasize, xtiles * fpasize, info["Npts"]>>
       /\ (pc = "tile_open" /\ x = 0 /\ y = 0) => data = Zeros(data.shape)
       /\ pc = "done" => self_data.shape = data.shape

\* C3 as stated: with a tile of the discovered grid missing, the mosaic is
\* assembled all the same and the region of the missing tile is left 0.
C3_MissingTileLeftZero ==
    (kind = "mosaic" /\ Terminal /\ MissingInGrid # {})
    => /\ pc = "done"
       /\ \A m \in MissingInGrid :
            LET zero(r, c, k) == 0
            IN  BlockHolds(self_data, m[1], m[2], fpasize, zero)

\* C3 as amended: with a tile of the discovered grid missing, the mosaic is
\* never assembled: no canvas becomes self.data, and the open of the missing
\* tile raises OSError when the loop gets to it.
C3_MissingTileRaises ==
    (kind = "mosaic" /\ MissingInGrid # {})
    => /\ pc \notin {"assign", "done"}
       /\ self_data = EmptyArray
       /\ (pc = "failed" /\ data # EmptyArray /\ <<x, y>> \in MissingInGrid)
            => err = "OSError"

C3_Witness ==
    /\ kind = "mosaic"
    /\ pc = "failed" /\ err = "OSError"
    /\ xtiles = 2
    /\ <<x, y>> = <<1, 0>>
    /\ <<1, 0>> \in MissingInGrid
    /\ data # EmptyArray

\* C4: with a required sibling file missing (image: .seq, .dat, .bsp; mosaic:
\* .dms, the lower-case .dmt, _0000_0000.drd, _0000_0000.dmd) the constructor
\* fails in _check_files: no file is ever opened or read, nothing is stored in
\* the object, and the call ends with OSError.
C4_MissingSiblingFailsInCheck ==
    (kind \in Kinds /\ Required(kind) \ fs.files # {})
    => /\ pc \in {"check", "failed"}
       /\ nopen = 0 /\ nread = 0 /\ handles = {}
       /\ info = EmptyDict /\ self_data = EmptyArray
       /\ pc = "failed" => err = "OSError"

C4_Witness ==
    /\ kind = "mosaic"
    /\ Required(kind) \ fs.files = {Lower(".dmt")}
    /\ pc = "failed" /\ err = "OSError"
    /\ ci = 2
    /\ nopen = 0

\* C5: for a raw buffer of 255 + side*side*Npts elements,
\* _reshape_tile(raw, (Npts, side, side)) is a (side, side, Npts) array whose
\* rows are those of the file in reverse order and whose columns are in the
\* file's order: out[r][c][k] = raw[255 + k*side*side + (side-1-r)*side + c].
C5_RowsReversedOnly ==
    (/\ kind = "reshape"
     /\ pc = "returned"
     /\ arg.data.shape[1] = Preamble + arg.shape[2] * arg.shape[3] * arg.shape[1])
    => LET side == arg.shape[2]
           Npts == arg.shape[1]
       IN  /\ ret.ok
           /\ ret.val.shape = <<side, side, Npts>>
           /\ \A r \in 0..(side - 1), c \in 0..(side - 1), k \in 0..(Npts - 1) :
                ret.val.a[r][c][k] =
                    arg.data.a[Preamble + k * side * side + (side - 1 - r) * side + c]

C5_Witness ==
    /\ kind = "reshape"
    /\ pc = "returned"
    /\ ret.ok
    /\ arg.shape = <<2, 3, 3>>
    /\ arg.data.a[Preamble] = Preamble
    /\ ret.val.a[0][1][1] = Preamble + 9 + 6 + 1

\* What _fpa_size was called with, as the fraction num/den = (datasize - 255)/Npts.
FpaNum == arg.datasize[1] - Preamble * arg.datasize[2]
FpaDen == arg.datasize[2] * arg.Npts
FpaDefined == arg.Npts # 0 /\ (FpaNum = 0 \/ (FpaNum < 0) = (FpaDen < 0))

\* s is the square root of num/den rounded to the nearest integer.
RoundsTo(s) ==
    /\ FpaDefined
    /\ (2 * s - 1) * (2 * s - 1) * Abs(FpaDen) <= 4 * Abs(FpaNum)
    /\ 4 * Abs(FpaNum) < (2 * s + 1) * (2 * s + 1) * Abs(FpaDen)

\* s is the square root of num/den cut to an integer.
TruncatesTo(s) ==
    /\ FpaDefined
    /\ s * s * Abs(FpaDen) <= Abs(FpaNum)
    /\ Abs(FpaNum) < (s + 1) * (s + 1) * Abs(FpaDen)

\* C6 as stated: _fpa_size returns the square root of (count - 255)/Npts
\* rounded to the nearest integer when that is 32, 64 or 128, and fails for
\* every other count.
C6_SideIsRounded ==
    (kind = "fpa" /\ pc = "returned")
    => /\ \A s \in FpaSizes : RoundsTo(s) => ret = Ok(s)
       /\ (~ \E s \in FpaSizes : RoundsTo(s)) => ~ret.ok

\* C6 as amended: _fpa_size returns the square root of (count - 255)/Npts cut
\* to an integer (int(), not round()) when that is 32, 64 or 128, and fails
\* for every other count.
C6_SideIsTruncated ==
    (kind = "fpa" /\ pc = "returned")
    => /\ \A s \in FpaSizes : TruncatesTo(s) => ret = Ok(s)
       /\ (~ \E s \in FpaSizes : TruncatesTo(s)) => ~ret.ok

\* A call that returns 32 where rounding gives 33.
C6_Witness ==
    /\ kind = "fpa"
    /\ pc = "returned"
    /\ ret = Ok(32)
    /\ RoundsTo(33)

\* The tile files hold another number of points than the header says.
Mismatch ==
    /\ kind \in Kinds
    /\ "Npts" \in DOMAIN info
    /\ \E s \in FpaSizes, n \in 1..MaxFilePts :
         n # info["Npts"] /\ fs.tileBytes = TileBytes(s, n)

\* C7 as stated: when the tile file holds 255 + s*s*n elements, s one of 32,
\* 64, 128, and n is not the header's Npts, the inferred side is none of 32,
\* 64, 128 and nothing is constructed.
C7_MismatchRejected ==
    Mismatch => (pc # "done" /\ fpasize \notin FpaSizes)

\* C7 as amended: such a file is rejected with ValueError and nothing is
\* constructed, unless its size is also that of a tile of Npts points of
\* another side s2 of 32, 64, 128 (n = 4*Npts, 16*Npts, Npts/4 or Npts/16):
\* that file is decoded as an s2 by s2 tile of Npts points.
C7_MismatchRejectedUnlessSizeFits ==
    Mismatch =>
        IF \E s2 \in FpaSizes : fs.tileBytes = TileBytes(s2, info["Npts"])
        THEN Terminal =>
               /\ pc = "done"
               /\ \E s2 \in FpaSizes :
                    /\ fs.tileBytes = TileBytes(s2, info["Npts"])
                    /\ self_data.shape = <<s2, s2, info["Npts"]>>
        ELSE /\ pc # "done"
             /\ self_data = EmptyArray
             /\ pc = "failed" => err = "ValueError"

C7_Witness ==
    /\ Mismatch
    /\ kind = "image"
    /\ info["Npts"] = 2
    /\ fs.tileBytes = TileBytes(32, 1)
    /\ pc = "failed" /\ err = "ValueError"
    /\ nread > 0

\* The positions of a constructor that has read the whole header.
AfterHeader ==
    {"hdr_close", "dat_open", "dat_read", "dat_close", "dat_fpa", "dat_reshape",
     "glob_x", "glob_y", "stat", "alloc", "tile_open", "tile_read",
     "tile_close", "tile_reshape", "tile_place", "assign", "done"}

\* The time stamp of a header: what is there of its characters.
StampText(h) ==
    [i \in 1..Min(h.stampLen, Max(0, Min(LenTimeStamp, h.len - OffTimeStamp)))
        |-> 48 + ((i - 1) % 10)]

\* C8 as stated: a header too short for StartPt (4 bytes at 2228), Npts (4 at
\* 2236), PtSep (8 at 2216) or, for an image, the time stamp (46 at 16489) is
\* never read to its end, and nothing is constructed from it.
C8_ShortHeaderFails ==
    (/\ kind \in Kinds
     /\ fs.hdr.len < (IF kind = "image" THEN OffTimeStamp + LenTimeStamp ELSE OffNpts + 4))
    => pc \notin AfterHeader

\* C8 as amended: a header too short for StartPt, Npts or PtSep (shorter than
\* 2240 bytes) ends the constructor with struct.error at the first short
\* field, and nothing of it is stored; the time stamp of an image is not
\* checked: it is what there is of the 46 bytes at 16489, up to the first
\* 0x04, be it nothing.
C8_ShortFieldFailsStampDoesNot ==
    /\ (kind \in Kinds /\ fs.hdr.len < OffNpts + 4)
        => /\ pc \in {"check", "hdr_open", "rd_start", "rd_npts", "failed"}
           /\ info = EmptyDict
           /\ pc = "failed" => err = "struct.error"
    /\ (kind = "image" /\ "Time Stamp" \in DOMAIN info)
        => info["Time Stamp"] = StampText(fs.hdr)

\* A header that holds StartPt and is too short for Npts.
C8_Witness ==
    /\ kind \in Kinds
    /\ fs.hdr.len = OffNpts + 2
    /\ pc = "failed" /\ err = "struct.error"
    /\ "StartPt" \in DOMAIN d
    /\ nread = 2

\* C9: the wavenumbers _get_wavenumbers returns are Npts numbers, the i-th of
\* them (from 0) PtSep * (StartPt + i); with PtSep > 0 they increase strictly
\* from PtSep * StartPt to PtSep * (StartPt + Npts - 1).
C9_AxisOfHeader ==
    ("wavenumbers" \in DOMAIN info)
    => LET wn == info["wavenumbers"]
           Npts == info["Npts"]
           StartPt == info["StartPt"]
           PtSep == info["PtSep"]
       IN  /\ Len(wn) = Npts
           /\ \A i \in 0..(Npts - 1) : wn[i + 1] = PtSep * (StartPt + i)
           /\ PtSep > 0 =>
                /\ \A i \in 1..(Npts - 1) : wn[i] < wn[i + 1]
                /\ wn[1] = PtSep * StartPt
                /\ wn[Npts] = PtSep * (StartPt + Npts - 1)

C9_Witness ==
    /\ "wavenumbers" \in DOMAIN info
    /\ info["Npts"] = MaxNpts
    /\ info["StartPt"] = 3
    /\ info["PtSep"] = 2
    /\ info["wavenumbers"][1] = 6

\* The positions inside a with block, where its file is open.
InsideWith ==
    {"rd_start", "rd_npts", "rd_sep", "axis", "rd_date", "hdr_close",
     "dat_read", "dat_close", "tile_read", "tile_close"}

\* C10: at most one file handle is open at any time; none is open outside the
\* with blocks (in the existence check, geometry inference, decoding, the
\* canvas write, between files) nor once the constructor has returned or
\* failed.
C10_AtMostOneHandle ==
    /\ Cardinality(handles) <= 1
    /\ pc \notin InsideWith => handles = {}

\* A failure inside a with block.
C10_Witness ==
    /\ pc = "failed"
    /\ err \in {"struct.error", "IndexError"}
    /\ nopen = 1
    /\ handles = {}

=============================================================================
